---- MODULE Spec2Model ----
(***************************************************************************)
(* A model of the BBGun session coordinator (src/client.ts): the transport *)
(* event handlers with their deduplication ledger and high-water mark, gap *)
(* recovery after (re)authentication, the ledger trim, and the promise     *)
(* chain behind enqueueSend.                                               *)
(*                                                                         *)
(* Node runs every handler to completion; the only suspension point of the *)
(* coordinator is the await of the history fetch in recoverMissedMessages, *)
(* so each action below is one handler run, or the resumption of a handler *)
(* whose fetch has settled.  The promise chain of enqueueSend advances by  *)
(* promise reactions, one action each.                                     *)
(***************************************************************************)
EXTENDS Integers, Sequences, FiniteSets

\* ------------------------------------------------------------- bounds
MaxGuid == 3
MaxTime == 2
MaxPage == 2
MaxPending == 2
MaxCycle == 1
MaxListeners == 2
MaxCount == 2
MaxEventIdx == 2
MaxMaxSize == 3
MaxTasks == 4
MaxErrorListeners == 1

\* ------------------------------------------------------------- state
VARIABLES
    apiKey,              \* config.apiKey is set (a password is configured)
    processedMessages,   \* the ledger: a JS Set, kept here in insertion order
    lastMessageTime,     \* the high-water mark
    readyEmitted,
    listenersAttached,
    socketListeners,     \* how many times the handlers are registered on the socket
    connected,           \* socket.connected
    socketActive,        \* the transport is connecting or will reconnect by itself
    pending,             \* handlers suspended at the await of the history fetch
    cycle,               \* raw disconnects so far: the connection cycle's number
    emitted,             \* what application listeners observed during the last step
    emitCount,           \* 'new-message' events observed so far, per identifier
    readyCount,          \* 'ready' events observed so far, per connection cycle
    recoverCalls,        \* recoverMissedMessages calls so far, per connection cycle
    trimmed,             \* identifiers a ledger trim has removed so far
    socketConnectCalls,  \* socket.connect() calls made by the last step
    socketDisconnectCalls, \* socket.disconnect() calls made by the last step
    thrown,              \* the last step's handler threw out of the event callback
    unrecorded,          \* the last step emitted a 'new-message' whose identifier
                         \* was not in the ledger at that moment
    outageMark,          \* the mark at the last raw disconnect, as recovery has
                         \* advanced it since, until the next Ready entry (0: none)
    last,                \* the operation or raw event the last step handled
    tasks,               \* enqueueSend: one entry per call, in call order
    sendQueue,           \* enqueueSend: which promise this.sendQueue refers to
    startOrder           \* enqueueSend: task bodies in the order they started

coordVars == <<apiKey, processedMessages, lastMessageTime, readyEmitted,
               listenersAttached, socketListeners, connected, socketActive,
               pending, cycle, emitted, emitCount, readyCount, recoverCalls,
               trimmed, socketConnectCalls, socketDisconnectCalls, thrown,
               unrecorded, outageMark, last>>
sendVars == <<tasks, sendQueue, startOrder>>
vars == <<coordVars, sendVars>>

\* ------------------------------------------------------------- values
\* A payload { guid?: string; dateCreated?: number }: 0 stands for a field that
\* is absent or falsy ("" or 0), which the handlers do not tell apart.
Guids == 0..MaxGuid
Times == 0..MaxTime
Msgs == [guid : Guids, dateCreated : Times]

\* A payload the handlers do not look into: that of an event other than
\* 'new-message', and any positional argument after the first.
Extra == [guid |-> 0, dateCreated |-> 0]

\* A second positional argument: one the handlers would be wrong to look into.
Trailing == [guid |-> MaxGuid, dateCreated |-> MaxTime]

\* The positional arguments a raw event of a given name can carry.
RawArgs(name) ==
    {<<>>, <<Extra, Trailing>>} \cup
    (IF name = "new-message" THEN {<<m>> : m \in Msgs} ELSE {<<Extra>>})

\* The pages the history fetcher can answer with: stored records, each with its
\* identifier and creation timestamp, in any order and with any repetition.
Stored == {m \in Msgs : m.guid # 0 /\ m.dateCreated # 0}
Pages == UNION {[1..n -> Stored] : n \in 0..MaxPage}

\* The payload of a raw 'auth-error' event, { message: string; reason?: string }.
ErrorMessages == {"invalid password", "server locked"}
AuthErrors == [message : ErrorMessages]

\* new Error(`Authentication failed: ${error.message}`)
AuthenticationFailed(error) ==
    [error |-> "Authentication failed: ", message |-> error.message]

serverEvents ==
    <<"new-message", "message-updated", "updated-message",
      "chat-read-status-changed", "group-name-change", "participant-added",
      "participant-removed", "participant-left", "group-icon-changed",
      "group-icon-removed", "message-send-error", "typing-indicator",
      "new-server", "incoming-facetime", "ft-call-status-changed",
      "hello-world">>

\* limit: 100 of the history request.
PageLimit == 100

ServerDisconnect == "io server disconnect"
ClientDisconnect == "io client disconnect"
Reasons == {ServerDisconnect, "transport close"}

\* One emission to application listeners: the event's name, the arguments
\* passed to the listeners, and the connection cycle of the emitting handler.
Ev(name, args, c) == [name |-> name, args |-> args, cycle |-> c]

Op(op, name) == [op |-> op, name |-> name]

\* A raw event as the socket hands it to the registered handlers.
Raw(op, name, args) == [op |-> op, name |-> name, args |-> args]

\* ------------------------------------------------------------- helpers
\* The observation counters stop counting at MaxCount.
Sat(n) == IF n > MaxCount THEN MaxCount ELSE n

IsNewMessageOf(e, g) ==
    e.name = "new-message" /\ Len(e.args) > 0 /\ e.args[1].guid = g

IsReadyOf(e, c) == e.name = "ready" /\ e.cycle = c

Max(S) == CHOOSE x \in S : \A y \in S : y <= x

Larger(a, b) == IF a > b THEN a ELSE b

\* The newest creation timestamp among the records with an identifier that a
\* sequence of emissions carries as 'new-message' (0: none).
AcceptedMax(events) ==
    Max({0} \cup {events[i].args[1].dateCreated :
                     i \in {j \in 1..Len(events) :
                               /\ events[j].name = "new-message"
                               /\ Len(events[j].args) > 0
                               /\ events[j].args[1].guid # 0}})

Has(ledger, guid) == \E i \in 1..Len(ledger) : ledger[i] = guid

\* Set.prototype.add: a new identifier goes to the end of the insertion order.
Add(ledger, guid) == IF Has(ledger, guid) THEN ledger ELSE Append(ledger, guid)

\* Array.prototype.slice(start) of JavaScript: a negative start counts from the
\* end, and -0 is 0.
Slice(arr, start) ==
    LET n == Len(arr)
        from == IF start < 0 THEN (IF n + start < 0 THEN 0 ELSE n + start)
                ELSE (IF start > n THEN n ELSE start)
    IN  SubSeq(arr, from + 1, n)

\* The coordinator's fields as one value, so that a handler is a function of it.
Cur ==
    [processedMessages |-> processedMessages,
     lastMessageTime |-> lastMessageTime,
     readyEmitted |-> readyEmitted,
     pending |-> pending,
     emitted |-> <<>>,
     recoverCalls |-> recoverCalls,
     socketActive |-> socketActive,
     socketConnectCalls |-> 0,
     socketDisconnectCalls |-> 0,
     errorListeners |-> 1,
     thrown |-> FALSE,
     unrecorded |-> FALSE]

\* EventEmitter.emit: the listeners are called; an 'error' event that has no
\* listener is thrown to the caller of emit instead.
Emit(s, name, args, c) ==
    LET s1 == [s EXCEPT !.emitted = Append(@, Ev(name, args, c)),
                        !.unrecorded = @ \/ (/\ name = "new-message"
                                             /\ Len(args) > 0
                                             /\ args[1].guid # 0
                                             /\ ~Has(s.processedMessages,
                                                     args[1].guid))]
    IN  IF name = "error" /\ s.errorListeners = 0
        THEN [s1 EXCEPT !.thrown = TRUE]
        ELSE s1

SocketConnect(s) ==
    [s EXCEPT !.socketConnectCalls = @ + 1, !.socketActive = TRUE]

SocketDisconnect(s) ==
    [s EXCEPT !.socketDisconnectCalls = @ + 1, !.socketActive = FALSE]

\* Advance without the comparison to the current mark.
AdvanceAlways(s, m) ==
    IF m.dateCreated # 0
    THEN [s EXCEPT !.lastMessageTime = m.dateCreated]
    ELSE s

\* The bookkeeping shared by the live path and recovery: advance the mark.
Advance(s, m) ==
    IF m.dateCreated # 0 /\ m.dateCreated > s.lastMessageTime
    THEN [s EXCEPT !.lastMessageTime = m.dateCreated]
    ELSE s

\* ------------------------------------------------------------- handlers
\* The handler forwarding every positional argument.
OnServerEventAllArgs(s, name, args, c) ==
    LET isNew == name = "new-message" /\ Len(args) > 0 /\ args[1].guid # 0
    IN  IF isNew /\ Has(s.processedMessages, args[1].guid)
        THEN s
        ELSE IF isNew
        THEN Emit(Advance([s EXCEPT !.processedMessages = Add(@, args[1].guid)],
                          args[1]),
                  name, args, c)
        ELSE Emit(s, name, args, c)

\* The handler without the ledger lookup.
OnServerEventNoDedup(s, name, args, c) ==
    LET isNew == name = "new-message" /\ Len(args) > 0 /\ args[1].guid # 0
        out == IF Len(args) > 0 THEN <<args[1]>> ELSE <<>>
    IN  IF isNew
        THEN Emit(Advance([s EXCEPT !.processedMessages = Add(@, args[1].guid)],
                          args[1]),
                  name, out, c)
        ELSE Emit(s, name, out, c)

\* socket.on(eventName, (...args) => ...) for a name of serverEvents.
OnServerEvent(s, name, args, c) ==
    LET isNew == name = "new-message" /\ Len(args) > 0 /\ args[1].guid # 0
        out == IF Len(args) > 0 THEN <<args[1]>> ELSE <<>>
    IN  IF isNew /\ Has(s.processedMessages, args[1].guid)
        THEN s
        ELSE IF isNew
        THEN Emit(Advance([s EXCEPT !.processedMessages = Add(@, args[1].guid)],
                          args[1]),
                  name, out, c)
        ELSE Emit(s, name, out, c)

\* The handler leaving readyEmitted as it is.
OnDisconnectNoReset(s, reason, c) ==
    LET s1 == Emit(s, "disconnect", <<>>, c)
    IN  IF reason = ServerDisconnect THEN SocketConnect(s1) ELSE s1

\* The handler reconnecting whatever the reason.
OnDisconnectAnyReason(s, reason, c) ==
    SocketConnect(Emit([s EXCEPT !.readyEmitted = FALSE], "disconnect", <<>>, c))

\* socket.on("disconnect", (reason) => ...)
OnDisconnect(s, reason, c) ==
    LET s1 == Emit([s EXCEPT !.readyEmitted = FALSE], "disconnect", <<>>, c)
    IN  IF reason = ServerDisconnect THEN SocketConnect(s1) ELSE s1

\* recoverMissedMessages without its first line: it fetches whatever the mark.
ReadyEntryAlwaysFetch(s, c) ==
    [s EXCEPT !.recoverCalls[c] = Sat(@ + 1),
              !.pending = Append(@, [after |-> s.lastMessageTime, sort |-> "ASC",
                                     limit |-> PageLimit, cycle |-> c])]

\* recoverMissedMessages up to its await, and what follows it when it returns
\* at once: with no mark there is no fetch and 'ready' follows directly.
ReadyEntry(s, c) ==
    LET s1 == [s EXCEPT !.recoverCalls[c] = Sat(@ + 1)]
    IN  IF s1.lastMessageTime <= 0
        THEN Emit(s1, "ready", <<>>, c)
        ELSE [s1 EXCEPT !.pending =
                          Append(@, [after |-> s1.lastMessageTime, sort |-> "ASC",
                                     limit |-> PageLimit, cycle |-> c])]

\* The handler without the readyEmitted guard.
OnAuthOkUnguarded(s, c) == ReadyEntry([s EXCEPT !.readyEmitted = TRUE], c)

\* socket.on("auth-ok", async () => ...)
OnAuthOk(s, c) ==
    IF ~s.readyEmitted
    THEN ReadyEntry([s EXCEPT !.readyEmitted = TRUE], c)
    ELSE s

\* The handler without the test of config.apiKey.
OnConnectWithoutCredentialTest(s, c) ==
    IF ~s.readyEmitted
    THEN ReadyEntry([s EXCEPT !.readyEmitted = TRUE], c)
    ELSE s

\* socket.on("connect", async () => ...)
OnConnect(s, c) ==
    IF ~apiKey /\ ~s.readyEmitted
    THEN ReadyEntry([s EXCEPT !.readyEmitted = TRUE], c)
    ELSE s

\* The handler that only logs the failure.
OnAuthErrorSilent(s, error, c) == s

\* socket.on("auth-error", (error) => ...)
OnAuthError(s, error, c) == Emit(s, "error", <<AuthenticationFailed(error)>>, c)

Handle(s, ev, c) ==
    CASE ev.op = "event" -> OnServerEvent(s, ev.name, ev.args, c)
      [] ev.op = "disconnect" -> OnDisconnect(s, ev.name, c)
      [] ev.op = "auth-ok" -> OnAuthOk(s, c)
      [] ev.op = "auth-error" -> OnAuthError(s, ev.args[1], c)
      [] ev.op = "connect" -> OnConnect(s, c)
      [] OTHER -> s

\* The socket calls every registered copy of the handler, in turn, until one of
\* them throws.
RECURSIVE Dispatch(_, _, _, _)
Dispatch(n, s, ev, c) ==
    IF n = 0 \/ s.thrown THEN s ELSE Dispatch(n - 1, Handle(s, ev, c), ev, c)

\* The loop emitting before the ledger is consulted or written.
RECURSIVE RecoverLoopEmitFirst(_, _, _)
RecoverLoopEmitFirst(s, messages, c) ==
    IF messages = <<>> THEN s
    ELSE LET msg == Head(messages)
             s1 == Emit(s, "new-message", <<msg>>, c)
         IN  RecoverLoopEmitFirst(
                 Advance([s1 EXCEPT !.processedMessages = Add(@, msg.guid)], msg),
                 Tail(messages), c)

\* The for loop of recoverMissedMessages over the fetched page.
RECURSIVE RecoverLoop(_, _, _)
RecoverLoop(s, messages, c) ==
    IF messages = <<>> THEN s
    ELSE LET msg == Head(messages)
         IN  IF msg.guid # 0 /\ ~Has(s.processedMessages, msg.guid)
             THEN RecoverLoop(
                      Emit(Advance([s EXCEPT !.processedMessages =
                                                 Add(@, msg.guid)], msg),
                           "new-message", <<msg>>, c),
                      Tail(messages), c)
             ELSE RecoverLoop(s, Tail(messages), c)

\* 'ready' emitted without awaiting recoverMissedMessages.
ReadyBeforeRecovery(s, messages, c) ==
    RecoverLoop(Emit(s, "ready", <<>>, c), messages, c)

\* The handler after its await: the loop over a fetched page, then 'ready'.
RecoverReturned(s, messages, c) ==
    Emit(RecoverLoop(s, messages, c), "ready", <<>>, c)

\* recoverMissedMessages without its try/catch: the rejection leaves the handler
\* before 'ready', and surfaces as an error.
RecoverFailedUncaught(s, c) == Emit(s, "error", <<>>, c)

\* The handler after its await when the fetch rejected: the catch block logs,
\* recoverMissedMessages returns, and 'ready' follows.
RecoverFailed(s, c) == Emit(s, "ready", <<>>, c)

RemoveAt(seq, i) == SubSeq(seq, 1, i - 1) \o SubSeq(seq, i + 1, Len(seq))

\* ------------------------------------------------------------- promises
\* The promises of enqueueSend: the Promise.resolve() sendQueue starts as, and per
\* call k its result (sendQueue.then(() => task())) and result.catch(() => {}).
InitialQueue == [kind |-> "resolved", k |-> 0]
ResultOf(k) == [kind |-> "result", k |-> k]
CatchOf(k) == [kind |-> "catch", k |-> k]

\* A promise's state, and the task whose outcome settled it (0: none).
PState(p) ==
    CASE p.kind = "resolved" -> "fulfilled"
      [] p.kind = "result" -> tasks[p.k].result
      [] p.kind = "catch" -> tasks[p.k].chain

PBy(p) == IF p.kind = "resolved" THEN 0 ELSE tasks[p.k].by

\* ------------------------------------------------------------- actions
\* The coordinator's fields after a step, from the value a handler computed.
Set(after) ==
    \E s \in {after} :
        /\ Len(s.pending) <= MaxPending
        /\ processedMessages' = s.processedMessages
        /\ lastMessageTime' = s.lastMessageTime
        /\ readyEmitted' = s.readyEmitted
        /\ pending' = s.pending
        /\ emitted' = s.emitted
        /\ emitCount' =
               [g \in 1..MaxGuid |->
                   Sat(emitCount[g] + Cardinality({i \in 1..Len(s.emitted) :
                                                     IsNewMessageOf(s.emitted[i], g)}))]
        /\ readyCount' =
               [c \in 0..MaxCycle |->
                   Sat(readyCount[c] + Cardinality({i \in 1..Len(s.emitted) :
                                                      IsReadyOf(s.emitted[i], c)}))]
        /\ recoverCalls' = s.recoverCalls
        /\ trimmed' =
               trimmed \cup {g \in 1..MaxGuid : Has(processedMessages, g)
                                                /\ ~Has(s.processedMessages, g)}
        /\ socketActive' = s.socketActive
        /\ socketConnectCalls' = s.socketConnectCalls
        /\ socketDisconnectCalls' = s.socketDisconnectCalls
        /\ thrown' = s.thrown
        /\ unrecorded' = s.unrecorded

Init ==
    /\ apiKey \in BOOLEAN
    /\ processedMessages = <<>>
    /\ lastMessageTime = 0
    /\ readyEmitted = FALSE
    /\ listenersAttached = FALSE
    /\ socketListeners = 0
    /\ connected = FALSE
    /\ socketActive = TRUE
    /\ pending = <<>>
    /\ cycle = 0
    /\ emitted = <<>>
    /\ emitCount = [g \in 1..MaxGuid |-> 0]
    /\ readyCount = [c \in 0..MaxCycle |-> 0]
    /\ recoverCalls = [c \in 0..MaxCycle |-> 0]
    /\ trimmed = {}
    /\ socketConnectCalls = 0
    /\ socketDisconnectCalls = 0
    /\ thrown = FALSE
    /\ unrecorded = FALSE
    /\ outageMark = 0
    /\ last = Op("init", "")
    /\ tasks = <<>>
    /\ sendQueue = InitialQueue
    /\ startOrder = <<>>

\* connect() without the one-time flag.
AlwaysAttach == TRUE

\* Whether connect() registers the handlers: the one-time flag.
MustAttach == ~listenersAttached

\* async connect()
Connect ==
    /\ listenersAttached' = TRUE
    /\ socketListeners' = IF MustAttach THEN socketListeners + 1 ELSE socketListeners
    /\ socketListeners' <= MaxListeners
    /\ Set(IF connected THEN Cur ELSE SocketConnect(Cur))
    /\ last' = Op("connect()", "")
    /\ UNCHANGED <<apiKey, connected, cycle, outageMark, sendVars>>

\* The transport's raw 'connect' event.
RawConnect ==
    /\ ~connected
    /\ socketActive
    /\ connected' = TRUE
    /\ Set(Dispatch(socketListeners, Cur, Raw("connect", "", <<>>), cycle))
    /\ last' = Op("raw connect", "")
    /\ outageMark' = IF recoverCalls' # recoverCalls THEN 0 ELSE outageMark
    /\ UNCHANGED <<apiKey, listenersAttached, socketListeners, cycle, sendVars>>

\* The transport's raw 'disconnect' event: a server-initiated disconnect is the
\* one the transport does not reconnect from by itself.
RawDisconnect(reason) ==
    /\ connected
    /\ cycle < MaxCycle
    /\ connected' = FALSE
    /\ cycle' = cycle + 1
    /\ Set(Dispatch(socketListeners,
                    [Cur EXCEPT !.socketActive = (reason # ServerDisconnect)],
                    Raw("disconnect", reason, <<>>), cycle))
    /\ last' = Op("raw disconnect", reason)
    /\ outageMark' = lastMessageTime
    /\ UNCHANGED <<apiKey, listenersAttached, socketListeners, sendVars>>

\* async close(): socket.disconnect() fires 'disconnect' at once when connected.
Close ==
    /\ connected => cycle < MaxCycle
    /\ connected' = FALSE
    /\ cycle' = IF connected THEN cycle + 1 ELSE cycle
    /\ Set(IF connected
           THEN Dispatch(socketListeners, SocketDisconnect(Cur),
                         Raw("disconnect", ClientDisconnect, <<>>), cycle)
           ELSE SocketDisconnect(Cur))
    /\ last' = Op("close()", "")
    /\ outageMark' = IF connected THEN lastMessageTime ELSE outageMark
    /\ UNCHANGED <<apiKey, listenersAttached, socketListeners, sendVars>>

\* The raw authentication-success event.
RawAuthOk ==
    /\ connected
    /\ Set(Dispatch(socketListeners, Cur, Raw("auth-ok", "", <<>>), cycle))
    /\ last' = Op("raw auth-ok", "")
    /\ outageMark' = IF recoverCalls' # recoverCalls THEN 0 ELSE outageMark
    /\ UNCHANGED <<apiKey, listenersAttached, socketListeners, connected, cycle,
                   sendVars>>

\* The raw authentication-failure event, arriving while the application has
\* `listeners` listeners registered for 'error' (on and off can change their
\* number at any time between two events).
RawAuthError(error, listeners) ==
    /\ connected
    /\ Set(Dispatch(socketListeners, [Cur EXCEPT !.errorListeners = listeners],
                    Raw("auth-error", "", <<error>>), cycle))
    /\ last' = Op("raw auth-error", "")
    /\ UNCHANGED <<apiKey, listenersAttached, socketListeners, connected, cycle,
                   outageMark, sendVars>>

\* A raw event of the domain catalog.
RawEvent(name, args) ==
    /\ connected
    /\ Set(Dispatch(socketListeners, Cur, Raw("event", name, args), cycle))
    /\ last' = Op("raw event", name)
    /\ UNCHANGED <<apiKey, listenersAttached, socketListeners, connected, cycle,
                   outageMark, sendVars>>

\* The history fetch of the i-th suspended handler resolves with a page: the
\* handler resumes, runs the loop of recoverMissedMessages and emits 'ready'.
Resumed(i, messages) ==
    RecoverReturned([Cur EXCEPT !.pending = RemoveAt(@, i)], messages,
                    pending[i].cycle)

FetchReturn(i, messages) ==
    /\ i \in 1..Len(pending)
    /\ Set(Resumed(i, messages))
    /\ last' = Op("fetch returned", "")
    /\ outageMark' = IF outageMark > 0
                     THEN Larger(outageMark, AcceptedMax(emitted'))
                     ELSE 0
    /\ UNCHANGED <<apiKey, listenersAttached, socketListeners, connected, cycle,
                   sendVars>>

\* The history fetch of the i-th suspended handler rejects: the catch block.
FetchFail(i) ==
    /\ i \in 1..Len(pending)
    /\ LET h == pending[i]
           s0 == [Cur EXCEPT !.pending = RemoveAt(@, i)]
       IN  /\ Set(RecoverFailed(s0, h.cycle))
           /\ last' = Op("fetch failed", "")
    /\ UNCHANGED <<apiKey, listenersAttached, socketListeners, connected, cycle,
                   outageMark, sendVars>>

\* What clearProcessedMessages(maxSize) leaves in the ledger.
Trimmed(ledger, maxSize) ==
    IF Len(ledger) > maxSize
    THEN Slice(ledger, 0 - (maxSize \div 2))
    ELSE ledger

\* public clearProcessedMessages(maxSize)
ClearProcessedMessages(maxSize) ==
    /\ Set([Cur EXCEPT !.processedMessages = Trimmed(@, maxSize)])
    /\ last' = Op("clearProcessedMessages", "")
    /\ UNCHANGED <<apiKey, listenersAttached, socketListeners, connected, cycle,
                   outageMark, sendVars>>

Next ==
    \/ Connect
    \/ Close
    \/ RawConnect
    \/ \E reason \in Reasons : RawDisconnect(reason)
    \/ RawAuthOk
    \/ \E error \in AuthErrors, listeners \in 0..MaxErrorListeners :
          RawAuthError(error, listeners)
    \/ \E k \in 1..MaxEventIdx :
          \E args \in RawArgs(serverEvents[k]) : RawEvent(serverEvents[k], args)
    \/ \E i \in 1..MaxPending, messages \in Pages : FetchReturn(i, messages)
    \/ \E i \in 1..MaxPending : FetchFail(i)
    \/ \E maxSize \in 0..MaxMaxSize : ClearProcessedMessages(maxSize)

Spec == Init /\ [][Next]_vars

\* ------------------------------------------------------------- ordered input
\* The coordinator fed in order: the records are created one after another, the
\* g-th with creation timestamp g; the transport delivers them to the attached
\* handlers in ascending order of timestamp; the history fetcher answers a
\* request with records created after its `after`, in ascending order.
World == {[guid |-> g, dateCreated |-> g] : g \in 1..MaxGuid}

OrderedPages(after) ==
    {page \in UNION {[1..n -> World] : n \in 0..MaxPage} :
        /\ \A i \in 1..Len(page) : page[i].dateCreated > after
        /\ \A i, j \in 1..Len(page) :
              i < j => page[i].dateCreated <= page[j].dateCreated}

\* A live record no older than any record processed so far.
OrderedLive(m) ==
    /\ socketListeners = 1
    /\ m.dateCreated >= lastMessageTime
    /\ RawEvent("new-message", <<m>>)

OrderedFetchReturn(i, messages) ==
    /\ i \in 1..Len(pending)
    /\ messages \in OrderedPages(pending[i].after)
    /\ FetchReturn(i, messages)

OrderedNext ==
    \/ Connect
    \/ Close
    \/ RawConnect
    \/ \E reason \in Reasons : RawDisconnect(reason)
    \/ RawAuthOk
    \/ \E m \in World : OrderedLive(m)
    \/ \E i \in 1..MaxPending :
          \E messages \in UNION {[1..n -> World] : n \in 0..MaxPage} :
              OrderedFetchReturn(i, messages)
    \/ \E i \in 1..MaxPending : FetchFail(i)

OrderedSpec == Init /\ [][OrderedNext]_vars

\* ------------------------------------------------------------- enqueueSend
\* enqueueSend without the assignment to this.sendQueue.
StaleSendQueue(k) == sendQueue

\* What this.sendQueue refers to after the k-th call.
NewSendQueue(k) == CatchOf(k)

\* public enqueueSend(task): chain the task onto sendQueue.
EnqueueSend ==
    /\ Len(tasks) < MaxTasks
    /\ tasks' = Append(tasks, [prev |-> sendQueue, body |-> "waiting",
                               result |-> "pending", by |-> 0,
                               chain |-> "pending"])
    /\ sendQueue' = NewSendQueue(Len(tasks) + 1)
    /\ UNCHANGED <<startOrder, coordVars>>

\* The reaction of sendQueue.then(() => task()) once the promise the task was
\* chained onto has settled: on fulfilment the task body starts (and may throw
\* at once); a rejection passes to the result and the body never runs.
ThenReaction(k, throws) ==
    /\ k \in 1..Len(tasks)
    /\ tasks[k].body = "waiting"
    /\ PState(tasks[k].prev) # "pending"
    /\ IF PState(tasks[k].prev) = "fulfilled"
       THEN /\ startOrder' = Append(startOrder, k)
            /\ tasks' = IF throws
                        THEN [tasks EXCEPT ![k].body = "done",
                                           ![k].result = "rejected",
                                           ![k].by = k]
                        ELSE [tasks EXCEPT ![k].body = "running"]
       ELSE /\ ~throws
            /\ startOrder' = startOrder
            /\ tasks' = [tasks EXCEPT ![k].body = "skipped",
                                      ![k].result = "rejected",
                                      ![k].by = PBy(tasks[k].prev)]
    /\ UNCHANGED <<sendQueue, coordVars>>

\* The promise a running task body returned settles, and the result with it.
TaskSettles(k, outcome) ==
    /\ k \in 1..Len(tasks)
    /\ tasks[k].body = "running"
    /\ tasks' = [tasks EXCEPT ![k].body = "done", ![k].result = outcome,
                              ![k].by = k]
    /\ UNCHANGED <<sendQueue, startOrder, coordVars>>

\* this.sendQueue = result, without the catch.
CatchPassThrough(result) == result

\* How result.catch(() => {}) settles for a settled result: the handler turns a
\* rejection into a fulfilment.
CatchOutcome(result) == "fulfilled"

\* The reaction of result.catch(() => {}).
CatchReaction(k) ==
    /\ k \in 1..Len(tasks)
    /\ tasks[k].chain = "pending"
    /\ tasks[k].result # "pending"
    /\ tasks' = [tasks EXCEPT ![k].chain = CatchOutcome(tasks[k].result)]
    /\ UNCHANGED <<sendQueue, startOrder, coordVars>>

SendNext ==
    \/ EnqueueSend
    \/ \E k \in 1..MaxTasks, throws \in BOOLEAN : ThenReaction(k, throws)
    \/ \E k \in 1..MaxTasks, outcome \in {"fulfilled", "rejected"} :
          TaskSettles(k, outcome)
    \/ \E k \in 1..MaxTasks : CatchReaction(k)

SendSpec == Init /\ [][SendNext]_vars

\* Promise reactions are jobs of the microtask queue, which Node always drains;
\* that a started task settles is what the liveness of the chain is relative to.
SendFairSpec ==
    /\ SendSpec
    /\ \A k \in 1..MaxTasks :
          /\ WF_vars(\E throws \in BOOLEAN : ThenReaction(k, throws))
          /\ WF_vars(\E outcome \in {"fulfilled", "rejected"} : TaskSettles(k, outcome))
          /\ WF_vars(CatchReaction(k))

\* ------------------------------------------------------------- properties
LedgerCount(g) ==
    Cardinality({i \in 1..Len(processedMessages) : processedMessages[i] = g})

PendingOf(c) == Cardinality({i \in 1..Len(pending) : pending[i].cycle = c})

RawOps == {"raw connect", "raw disconnect", "raw auth-ok", "raw auth-error",
           "raw event"}

\* C1 (dedup idempotence).  The ledger never holds an identifier twice, and as
\* long as no trim has removed an identifier, listeners have observed exactly one
\* 'new-message' event for it if it is in the ledger and none otherwise; a live
\* delivery of a payload whose identifier is in the ledger emits nothing and
\* changes neither the ledger nor the high-water mark.
C1_Once ==
    \A g \in 1..MaxGuid :
        /\ LedgerCount(g) <= 1
        /\ g \notin trimmed => emitCount[g] = LedgerCount(g)

C1_DuplicateIsNoOp ==
    last'.op = "raw event" =>
        \A m \in Msgs :
            (m.guid # 0 /\ Has(processedMessages, m.guid)
                /\ RawEvent("new-message", <<m>>))
            => /\ emitted' = <<>>
               /\ UNCHANGED <<processedMessages, lastMessageTime, emitCount>>

C1_DedupIdempotence == []C1_Once /\ [][C1_DuplicateIsNoOp]_vars

\* A duplicate has just been delivered to the attached handler and suppressed.
C1_Witness ==
    /\ last = Op("raw event", "new-message")
    /\ socketListeners = 1
    /\ emitted = <<>>
    /\ \E g \in 1..MaxGuid :
          emitCount[g] = 1 /\ LedgerCount(g) = 1 /\ g \notin trimmed

\* C4 (ready idempotence per cycle).  In every connection cycle the Ready entry
\* actions run at most once, and each run ends in exactly one 'ready' of that
\* cycle: a run is either still suspended at its history fetch or has emitted its
\* 'ready'.  A raw auth-ok delivered while readyEmitted is set (a repeated one,
\* also while the first one's recovery is in flight) emits nothing and starts no
\* recovery; the first one of a cycle starts exactly one.
C4_Counts ==
    \A c \in 0..MaxCycle :
        /\ recoverCalls[c] <= 1
        /\ readyCount[c] + PendingOf(c) = recoverCalls[c]

C4_AuthOkStep ==
    (last'.op = "raw auth-ok" /\ RawAuthOk) =>
        IF readyEmitted \/ socketListeners = 0
        THEN /\ emitted' = <<>>
             /\ UNCHANGED <<pending, recoverCalls, readyCount, readyEmitted>>
        ELSE /\ readyEmitted'
             /\ recoverCalls'[cycle] = recoverCalls[cycle] + 1

C4_ReadyOncePerCycle == []C4_Counts /\ [][C4_AuthOkStep]_vars

\* A repeated auth-ok has just been handled while the recovery started by the
\* first one is still in flight: the mark has moved since that fetch was issued.
C4_Witness ==
    /\ last = Op("raw auth-ok", "")
    /\ apiKey
    /\ readyEmitted
    /\ emitted = <<>>
    /\ recoverCalls[cycle] = 1
    /\ \E i \in 1..Len(pending) :
          pending[i].cycle = cycle /\ pending[i].after < lastMessageTime

\* C8 (server-initiated disconnect).  A raw disconnect handled by the attached
\* handler makes exactly one socket.connect() call when its reason is the
\* server-initiated one and none for any other reason, close() included.
C8_ServerDisconnectReconnects ==
    /\ (last.op = "raw disconnect" /\ socketListeners = 1)
          => socketConnectCalls = (IF last.name = ServerDisconnect THEN 1 ELSE 0)
    /\ last.op = "close()" => socketConnectCalls = 0

C8_Witness ==
    /\ last = Op("raw disconnect", ServerDisconnect)
    /\ socketListeners = 1
    /\ socketConnectCalls = 1
    /\ socketActive

\* C9 (connect() idempotence).  The handlers are registered on the socket at most
\* once, and exactly once after any connect() call, so a raw event produces at
\* most one emission; a connect() call made while connected calls no
\* socket.connect(), emits nothing and leaves the ledger, the mark, readyEmitted,
\* the suspended recoveries and the transport as they are (the call that finds
\* the handlers not yet registered registers them).
C9_AttachedOnce ==
    /\ socketListeners <= 1
    /\ listenersAttached <=> socketListeners = 1
    /\ last.op = "connect()" => socketListeners = 1
    /\ last.op \in RawOps => Len(emitted) <= 1

C9_ConnectedConnectStep ==
    (connected /\ last'.op = "connect()" /\ Connect)
    => /\ socketConnectCalls' = 0
       /\ emitted' = <<>>
       /\ UNCHANGED <<processedMessages, lastMessageTime, readyEmitted, pending,
                      connected, socketActive, cycle>>
       /\ listenersAttached => UNCHANGED <<listenersAttached, socketListeners>>

C9_ConnectIdempotent == []C9_AttachedOnce /\ [][C9_ConnectedConnectStep]_vars

\* connect() has just been called again on a session that is connected and ready.
C9_Witness ==
    /\ last = Op("connect()", "")
    /\ connected
    /\ readyEmitted
    /\ socketListeners = 1
    /\ socketConnectCalls = 0

\* C5 (recovery ordering).  In every reachable state, the resumption of any
\* suspended handler with a page in ascending timestamp order whose records are
\* distinct and not yet in the ledger emits one 'new-message' per record, in page
\* order, and then the 'ready' of its cycle, and nothing else; and the 'ready'
\* of a cycle is never emitted while the recovery of that cycle is in flight.
Ascending(page) ==
    \A i, j \in 1..Len(page) : i < j => page[i].dateCreated <= page[j].dateCreated

Fresh(page) ==
    /\ \A i \in 1..Len(page) : ~Has(processedMessages, page[i].guid)
    /\ \A i, j \in 1..Len(page) : i # j => page[i].guid # page[j].guid

Replayed(page, c) ==
    [k \in 1..Len(page) |-> Ev("new-message", <<page[k]>>, c)]
        \o <<Ev("ready", <<>>, c)>>

C5_Replays ==
    \A i \in 1..Len(pending) : \A page \in Pages :
        (Ascending(page) /\ Fresh(page))
        => Resumed(i, page).emitted = Replayed(page, pending[i].cycle)

C5_ReadyAfterRecovery ==
    \A c \in 0..MaxCycle : PendingOf(c) > 0 => readyCount[c] = 0

C5_RecoveryOrdering == C5_ReadyAfterRecovery /\ C5_Replays

\* A recovery has just replayed two records with increasing timestamps, then
\* 'ready'.
C5_Witness ==
    /\ last = Op("fetch returned", "")
    /\ Len(emitted) = 3
    /\ emitted[1].name = "new-message"
    /\ emitted[2].name = "new-message"
    /\ emitted[1].args[1].dateCreated < emitted[2].args[1].dateCreated
    /\ emitted[3].name = "ready"

\* C6 (high-water mark).  As claimed: whenever a record is processed, live by the
\* attached handler or from a fetched page, the mark becomes the larger of the
\* mark and the record's creation timestamp (so that it is the maximum over all
\* records seen), and no step decreases it.
PageMax(page) == Max({0} \cup {page[i].dateCreated : i \in 1..Len(page)})

C6_SeenStep ==
    /\ lastMessageTime' >= lastMessageTime
    /\ (last'.op = "raw event" /\ socketListeners > 0) =>
          \A m \in Msgs :
              RawEvent("new-message", <<m>>)
              => lastMessageTime' = Larger(lastMessageTime, m.dateCreated)
    /\ last'.op = "fetch returned" =>
          \A i \in 1..Len(pending) : \A page \in Pages :
              FetchReturn(i, page)
              => lastMessageTime' = Larger(lastMessageTime, PageMax(page))

C6_MarkIsMaxSeen == (lastMessageTime = 0) /\ [][C6_SeenStep]_vars

\* C6 as amended: the mark starts at 0, and every step leaves it at the larger of
\* its value and the creation timestamps of the records accepted during the step,
\* which are the records emitted as 'new-message' with an identifier; so it is
\* the maximum over the accepted records and never decreases.
C6_AcceptedStep ==
    lastMessageTime' = Larger(lastMessageTime, AcceptedMax(emitted'))

C6_MarkIsMaxAccepted == (lastMessageTime = 0) /\ [][C6_AcceptedStep]_vars

\* A recovery has just accepted two records, the first one newer than the second,
\* and the mark is the newer one's timestamp.
C6_Witness ==
    /\ last = Op("fetch returned", "")
    /\ Len(emitted) = 3
    /\ emitted[1].name = "new-message"
    /\ emitted[2].name = "new-message"
    /\ emitted[1].args[1].dateCreated > emitted[2].args[1].dateCreated
    /\ lastMessageTime = emitted[1].args[1].dateCreated

\* C7 (ledger trim).  As claimed: a clearProcessedMessages(maxSize) call that
\* finds more than maxSize identifiers leaves exactly the floor(maxSize/2) most
\* recently inserted ones, hence at most maxSize.
MostRecent(ledger, n) == SubSeq(ledger, Len(ledger) - n + 1, Len(ledger))

C7_ClearStep ==
    last'.op = "clearProcessedMessages" =>
        \A maxSize \in 0..MaxMaxSize :
            (Len(processedMessages) > maxSize /\ ClearProcessedMessages(maxSize))
            => /\ processedMessages' = MostRecent(processedMessages, maxSize \div 2)
               /\ Len(processedMessages') <= maxSize

C7_TrimToHalf == [][C7_ClearStep]_vars

\* C10 (recovery failure).  When the fetch of a suspended handler rejects, the
\* handler emits the 'ready' of its cycle and nothing else (no 'error', no
\* 'new-message'), and the ledger and the mark stay as they are.
C10_FailStep ==
    last'.op = "fetch failed" =>
        \A i \in 1..Len(pending) :
            FetchFail(i)
            => /\ emitted' = <<Ev("ready", <<>>, pending[i].cycle)>>
               /\ readyCount'[pending[i].cycle] = readyCount[pending[i].cycle] + 1
               /\ UNCHANGED <<processedMessages, lastMessageTime, emitCount>>

C10_FailureDoesNotBlockReady == [][C10_FailStep]_vars

\* A fetch has just failed and 'ready' was emitted all the same.
C10_Witness ==
    /\ last = Op("fetch failed", "")
    /\ Len(emitted) = 1
    /\ emitted[1].name = "ready"
    /\ readyCount[emitted[1].cycle] = 1
    /\ lastMessageTime > 0

\* C2 (send serialization).  Task bodies start in the order of the enqueueSend
\* calls, none left out; a body has started only if every earlier task has
\* settled; and at most one body is running.
Started(k) == tasks[k].body \in {"running", "done"}

C2_Serialized ==
    /\ startOrder = [i \in 1..Len(startOrder) |-> i]
    /\ \A k \in 1..Len(tasks) :
          Started(k) => \A j \in 1..(k - 1) :
                            tasks[j].body = "done" /\ tasks[j].result # "pending"
    /\ Cardinality({k \in 1..Len(tasks) : tasks[k].body = "running"}) <= 1

\* Three tasks were enqueued before the first one settled; the second one was
\* rejected and the third one is running.
C2_Witness ==
    /\ Len(tasks) >= 3
    /\ startOrder = <<1, 2, 3>>
    /\ tasks[2].result = "rejected"
    /\ tasks[3].body = "running"

\* C3 (send failure isolation).  A settled result carries the outcome of its own
\* task, whose body has run; the chain promise never rejects; and, every started
\* task settling, every enqueued task is eventually executed.
C3_OwnOutcome ==
    \A k \in 1..Len(tasks) :
        /\ tasks[k].result # "pending" => tasks[k].by = k /\ tasks[k].body = "done"
        /\ tasks[k].chain # "rejected"
        /\ tasks[k].body # "skipped"

C3_Executed(k) == Len(tasks) >= k /\ tasks[k].body = "done"

C3_FailureIsolation ==
    /\ []C3_OwnOutcome
    /\ \A k \in 1..MaxTasks : (Len(tasks) >= k) ~> C3_Executed(k)

\* The first task was rejected, and the second one ran and was fulfilled.
C3_Witness ==
    /\ Len(tasks) >= 2
    /\ tasks[1].result = "rejected"
    /\ tasks[2].result = "fulfilled"
    /\ tasks[2].by = 2

\* C11 (authentication failure).  With the handlers attached, every raw
\* 'auth-error' event emits exactly one 'error' event, which wraps the message of
\* the failure; it emits no 'ready', starts no recovery, leaves readyEmitted as
\* it is, and calls neither socket.connect() nor socket.disconnect().
C11_AuthErrorStep ==
    (last'.op = "raw auth-error" /\ socketListeners = 1) =>
        \A error \in AuthErrors : \A listeners \in 0..MaxErrorListeners :
            RawAuthError(error, listeners)
            => /\ emitted' = <<Ev("error", <<AuthenticationFailed(error)>>, cycle)>>
               /\ emitted'[1].args[1].message = error.message
               /\ socketConnectCalls' = 0
               /\ socketDisconnectCalls' = 0
               /\ UNCHANGED <<readyEmitted, pending, recoverCalls, readyCount,
                              connected, socketActive>>

C11_AuthErrorEmitsError == [][C11_AuthErrorStep]_vars

\* An authentication failure has just been reported to a listener of 'error',
\* and the session is still connected and not ready.
C11_Witness ==
    /\ last = Op("raw auth-error", "")
    /\ socketListeners = 1
    /\ Len(emitted) = 1
    /\ emitted[1].name = "error"
    /\ emitted[1].args[1].message = "invalid password"
    /\ ~thrown
    /\ connected
    /\ ~readyEmitted

\* C12 (no handler throws).  As claimed: whatever listeners the application has
\* registered, no handler of a raw transport event throws out of its callback.
C12_NoHandlerThrows == ~thrown

\* C13 (disconnect resets the cycle).  With the handlers attached, every raw
\* disconnect sets readyEmitted to false, emits exactly one 'disconnect' event
\* and leaves the ledger and the mark as they are; readyEmitted is only ever true
\* when the Ready entry of the current cycle has run; and the authentication
\* success that finds it false enters recovery for the current cycle and either
\* emits 'ready' or leaves the handler waiting for the fetch, 'ready' to follow.
C13_DisconnectStep ==
    (last'.op = "raw disconnect" /\ socketListeners = 1) =>
        \A reason \in Reasons :
            RawDisconnect(reason)
            => /\ readyEmitted' = FALSE
               /\ emitted' = <<Ev("disconnect", <<>>, cycle)>>
               /\ UNCHANGED <<processedMessages, lastMessageTime>>

C13_ReauthStep ==
    (last'.op = "raw auth-ok" /\ socketListeners = 1 /\ ~readyEmitted /\ RawAuthOk)
    => /\ readyEmitted'
       /\ recoverCalls'[cycle] = recoverCalls[cycle] + 1
       /\ \/ emitted' = <<Ev("ready", <<>>, cycle)>>
          \/ /\ emitted' = <<>>
             /\ Len(pending') = Len(pending) + 1
             /\ pending'[Len(pending')].cycle = cycle

C13_FlagIsOfThisCycle == readyEmitted => recoverCalls[cycle] = 1

C13_DisconnectResetsCycle ==
    /\ []C13_FlagIsOfThisCycle
    /\ [][C13_DisconnectStep /\ C13_ReauthStep]_vars

\* After a cycle that reached 'ready' and a disconnect, authentication has just
\* succeeded again and recovery has been invoked for the new cycle.
C13_Witness ==
    /\ last = Op("raw auth-ok", "")
    /\ cycle = 1
    /\ readyCount[0] = 1
    /\ recoverCalls[1] = 1
    /\ readyEmitted
    /\ Len(pending) = 1
    /\ pending[1].cycle = 1

\* C14 (legacy mode).  With the handlers attached and no credential configured,
\* a raw 'connect' event that finds readyEmitted false runs the Ready entry
\* (recovery, then 'ready'), and one that finds it true does nothing; with a
\* credential configured a raw 'connect' event emits nothing and starts no
\* recovery, and recovery is only ever entered by an authentication success; in
\* both modes the Ready entry runs at most once per cycle.
C14_ConnectStep ==
    (last'.op = "raw connect" /\ RawConnect) =>
        IF apiKey \/ readyEmitted \/ socketListeners = 0
        THEN /\ emitted' = <<>>
             /\ UNCHANGED <<pending, recoverCalls, readyCount, readyEmitted,
                            processedMessages, lastMessageTime>>
        ELSE /\ readyEmitted'
             /\ recoverCalls'[cycle] = recoverCalls[cycle] + 1
             /\ \/ emitted' = <<Ev("ready", <<>>, cycle)>>
                \/ /\ emitted' = <<>>
                   /\ Len(pending') = Len(pending) + 1
                   /\ pending'[Len(pending')].cycle = cycle

C14_EntryStep ==
    (apiKey /\ recoverCalls' # recoverCalls) => last'.op = "raw auth-ok"

C14_OncePerCycle == \A c \in 0..MaxCycle : recoverCalls[c] <= 1

C14_LegacyMode ==
    /\ []C14_OncePerCycle
    /\ [][C14_ConnectStep /\ C14_EntryStep]_vars

\* Without a credential, the raw 'connect' event of a second cycle has just
\* started recovery by itself.
C14_Witness ==
    /\ ~apiKey
    /\ last = Op("raw connect", "")
    /\ cycle = 1
    /\ readyEmitted
    /\ recoverCalls[1] = 1
    /\ Len(pending) >= 1
    /\ pending[Len(pending)].cycle = 1

\* C15 (recovery precondition).  The history fetcher is called by the Ready
\* entry alone, and by it exactly when the mark is above 0: then the request asks
\* for the records after the current mark, ascending, at most 100 of them, and
\* nothing is emitted until the fetch settles; with the mark at 0 there is no
\* request, no synthesized event, and 'ready' is emitted in the same step.
C15_Request(c) ==
    [after |-> lastMessageTime, sort |-> "ASC", limit |-> 100, cycle |-> c]

C15_EntryStep ==
    IF recoverCalls' # recoverCalls
    THEN IF lastMessageTime > 0
         THEN /\ pending' = Append(pending, C15_Request(cycle))
              /\ emitted' = <<>>
         ELSE /\ pending' = pending
              /\ emitted' = <<Ev("ready", <<>>, cycle)>>
    ELSE Len(pending') <= Len(pending)

C15_Requests ==
    \A i \in 1..Len(pending) :
        pending[i].after > 0 /\ pending[i].sort = "ASC" /\ pending[i].limit = 100

C15_RecoveryPrecondition == []C15_Requests /\ [][C15_EntryStep]_vars

\* Authentication has just succeeded after only records without a creation
\* timestamp were accepted: no fetch, 'ready' at once.
C15_Witness ==
    /\ last = Op("raw auth-ok", "")
    /\ Len(processedMessages) > 0
    /\ lastMessageTime = 0
    /\ pending = <<>>
    /\ Len(emitted) = 1
    /\ emitted[1].name = "ready"

\* C16 (pass-through).  In every reachable state, for every name of the catalog
\* other than 'new-message' and every argument list, the handler emits exactly
\* one event of that name carrying the first argument alone (none if there is
\* none) and changes nothing else; and every step that handles such a raw
\* event with the handlers attached shows exactly that one emission and leaves
\* the ledger, the mark and readyEmitted unchanged.
FirstOf(args) == IF Len(args) > 0 THEN <<args[1]>> ELSE <<>>

C16_Handler ==
    \A k \in 2..Len(serverEvents) : \A args \in RawArgs(serverEvents[k]) :
        OnServerEvent(Cur, serverEvents[k], args, cycle)
            = [Cur EXCEPT !.emitted = <<Ev(serverEvents[k], FirstOf(args), cycle)>>]

C16_Step ==
    (last'.op = "raw event" /\ last'.name # "new-message" /\ socketListeners = 1)
    => /\ Len(emitted') = 1
       /\ emitted'[1].name = last'.name
       /\ emitted'[1].args \in {<<>>, <<Extra>>}
       /\ UNCHANGED <<processedMessages, lastMessageTime, readyEmitted, pending>>

C17_AtMostOnce == \A g \in 1..MaxGuid : g \notin trimmed => emitCount[g] <= 1

C17_RecordedFirst ==
    /\ ~unrecorded
    /\ \A i \in 1..Len(emitted) :
          (/\ emitted[i].name = "new-message"
           /\ Len(emitted[i].args) > 0
           /\ emitted[i].args[1].guid # 0)
          => Has(processedMessages, emitted[i].args[1].guid)

C17_ExactlyOnceAcrossPaths == C17_AtMostOnce /\ C17_RecordedFirst

\* Two recoveries overlapped: the fetch of cycle 0 has just returned, after the
\* disconnect, the re-authentication and the 'ready' of cycle 1, and records
\* have been emitted, none of them twice.
C17_Witness ==
    /\ last = Op("fetch returned", "")
    /\ cycle = 1
    /\ readyCount[1] = 1
    /\ emitted # <<>>
    /\ emitted[Len(emitted)] = Ev("ready", <<>>, 0)
    /\ trimmed = {}
    /\ \E g \in 1..MaxGuid : emitCount[g] = 1 /\ LedgerCount(g) = 1

\* C18 (ready implies connected).  As claimed: whenever 'ready' is emitted the
\* socket is connected, readyEmitted is true, and the 'ready' belongs to the
\* current connection cycle (no disconnect has happened since its recovery began).
C18_ReadyImpliesConnected ==
    \A i \in 1..Len(emitted) :
        emitted[i].name = "ready"
        => connected /\ readyEmitted /\ emitted[i].cycle = cycle

\* C19 (no missed record lost to a live race).  As claimed: when a session that
\* disconnected with a mark T above 0 reaches the Ready entry again, its history
\* request asks for the records after T (T as recoveries still in flight may
\* have advanced it meanwhile), whatever live records have arrived since the
\* raw 'connect' event.
C19_EntryStep ==
    (/\ recoverCalls' # recoverCalls
     /\ outageMark > 0
     /\ Len(pending') = Len(pending) + 1)
    => pending'[Len(pending')].after = outageMark

C19_FetchFromMarkAtDisconnect == [][C19_EntryStep]_vars

\* C20 (ordered stream).  As claimed: with live records delivered in ascending
\* order of creation timestamp and pages fetched in ascending order, no step
\* emits a 'new-message' older than a record emitted before it (the mark being
\* the newest timestamp emitted so far), nor two of them out of order.
C20_Step ==
    /\ \A i \in 1..Len(emitted') :
          emitted'[i].name = "new-message"
          => emitted'[i].args[1].dateCreated >= lastMessageTime
    /\ \A i, j \in 1..Len(emitted') :
          (i < j /\ emitted'[i].name = "new-message"
                 /\ emitted'[j].name = "new-message")
          => emitted'[i].args[1].dateCreated <= emitted'[j].args[1].dateCreated

C20_OrderedStream == [][C20_Step]_vars

====
